---- MODULE Spec2Model ----
(***************************************************************************)
(* A model of youtube_rss_aggregator.py: the two feed normalizers          *)
(* (fetch_channel_feed, fetch_standard_rss_feed), the merge / sort / cap   *)
(* in main, the item builder of build_mrss_feed and the lines main prints. *)
(*                                                                         *)
(* Python values: a str is a TLA+ string, None is the string None below,   *)
(* a list is a sequence, a time tuple is a 9-tuple of integers, a naive    *)
(* datetime is the 6-tuple <<year, month, day, hour, minute, second>>.     *)
(***************************************************************************)
EXTENDS Integers, Sequences, FiniteSets, TLC

\* ------------------------------------------------------------------------
\* Bounds of the model (not program constants)
\* ------------------------------------------------------------------------

\* Publish times are taken from the days 1..MaxDay of January 2024, 10:00:00.
MaxDay == 2

\* ------------------------------------------------------------------------
\* Configuration constants of the program
\* ------------------------------------------------------------------------

MAX_ITEMS_PER_CHANNEL == 25

MAX_TOTAL_ITEMS == 50

FEED_TITLE == "Skratch Golf Video Feed"

FEED_DESCRIPTION == "Combined video feed from Skratch Golf YouTube channels"

FEED_LINK == "https://skratch.golf"

\* ------------------------------------------------------------------------
\* Python values
\* ------------------------------------------------------------------------

\* Python's None, and the value of a key a dict does not hold.
None == "<None>"

\* bool(v) of a str-or-None value.
Truthy(v) == v # None /\ v # ""

\* d.get(key, default): the default only when the key is missing.
Get(v, default) == IF v = None THEN default ELSE v

Min(a, b) == IF a <= b THEN a ELSE b

\* s[:n] of a list or a str.
Prefix(s, n) == SubSeq(s, 1, Min(Len(s), n))

\* ------------------------------------------------------------------------
\* datetime
\* ------------------------------------------------------------------------

NoTime == << >>

IsLeap(y) == (y % 4 = 0 /\ y % 100 # 0) \/ y % 400 = 0

DaysInMonth(y, m) ==
    IF m = 2 THEN (IF IsLeap(y) THEN 29 ELSE 28)
    ELSE IF m \in {4, 6, 9, 11} THEN 30 ELSE 31

\* datetime(*t[:6]) raises ValueError unless the fields are a calendar date.
ValidDate(t) ==
    /\ t[1] \in 1..9999
    /\ t[2] \in 1..12
    /\ t[3] \in 1..DaysInMonth(t[1], t[2])
    /\ t[4] \in 0..23
    /\ t[5] \in 0..59
    /\ t[6] \in 0..59

\* datetime(*published[:6]) for a valid tuple.
Datetime(t) == SubSeq(t, 1, 6)

\* a > b on naive datetimes: lexicographic on the six fields.
DtGreater(a, b) ==
    \E k \in 1..6 : a[k] > b[k] /\ \A j \in 1..(k - 1) : a[j] = b[j]

DtGE(a, b) == a = b \/ DtGreater(a, b)

\* time.struct_time of 10:00:00 on a day of January 2024 (wday, yday, isdst
\* are not read by the program).
StructTime(y, m, d) == <<y, m, d, 10, 0, 0, 0, d, 0>>

Days == 1..MaxDay

\* ------------------------------------------------------------------------
\* Text helpers (re, str)
\* ------------------------------------------------------------------------

\* s.startswith(p)
StartsWith(s, p) == Len(s) >= Len(p) /\ SubSeq(s, 1, Len(p)) = p

\* The character class [a-zA-Z0-9_-].
IdChars ==
    {"a", "b", "c", "d", "e", "f", "g", "h", "i", "j", "k", "l", "m",
     "n", "o", "p", "q", "r", "s", "t", "u", "v", "w", "x", "y", "z",
     "A", "B", "C", "D", "E", "F", "G", "H", "I", "J", "K", "L", "M",
     "N", "O", "P", "Q", "R", "S", "T", "U", "V", "W", "X", "Y", "Z",
     "0", "1", "2", "3", "4", "5", "6", "7", "8", "9", "_", "-"}

\* Whether r"v=([a-zA-Z0-9_-]{11})" matches link at position i.
VideoIdMatchAt(link, i) ==
    /\ i + 12 <= Len(link)
    /\ SubSeq(link, i, i + 1) = "v="
    /\ \A k \in 2..12 : SubSeq(link, i + k, i + k) \in IdChars

\* re.search(r"v=([a-zA-Z0-9_-]{11})", link): group(1) of the leftmost match,
\* None when there is no match.
SearchVideoId(link) ==
    LET hits == {i \in 1..Len(link) : VideoIdMatchAt(link, i)}
    IN IF hits = {} THEN None
       ELSE LET i == CHOOSE h \in hits : \A g \in hits : h <= g
            IN SubSeq(link, i + 2, i + 12)

\* re.sub(r'<[^>]+>', '', s), scanning from position i: a '<', one or more
\* characters other than '>', then '>' is removed.
RECURSIVE StripTagsFrom(_, _)
StripTagsFrom(s, i) ==
    IF i > Len(s) THEN ""
    ELSE IF SubSeq(s, i, i) = "<"
            /\ \E j \in (i + 2)..Len(s) :
                  /\ SubSeq(s, j, j) = ">"
                  /\ \A k \in (i + 1)..(j - 1) : SubSeq(s, k, k) # ">"
         THEN LET j == CHOOSE j \in (i + 2)..Len(s) :
                          /\ SubSeq(s, j, j) = ">"
                          /\ \A k \in (i + 1)..(j - 1) : SubSeq(s, k, k) # ">"
              IN StripTagsFrom(s, j + 1)
         ELSE SubSeq(s, i, i) \o StripTagsFrom(s, i + 1)

StripTags(s) == StripTagsFrom(s, 1)

\* html.escape(s) (quote=True), one character at a time.
EscapeChar(c) ==
    IF c = "&" THEN "&amp;"
    ELSE IF c = "<" THEN "&lt;"
    ELSE IF c = ">" THEN "&gt;"
    ELSE IF c = "\"" THEN "&quot;"
    ELSE IF c = "'" THEN "&#x27;"
    ELSE c

RECURSIVE HtmlEscapeFrom(_, _)
HtmlEscapeFrom(s, i) ==
    IF i > Len(s) THEN ""
    ELSE EscapeChar(SubSeq(s, i, i)) \o HtmlEscapeFrom(s, i + 1)

HtmlEscape(s) == HtmlEscapeFrom(s, 1)

\* ------------------------------------------------------------------------
\* resolve_handle_to_channel_id, get_youtube_rss_url
\* ------------------------------------------------------------------------

\* What requests.get of the channel page can give: a page holding a channel
\* id, a page holding none, an exception.
HandleResponses ==
    {[ok |-> TRUE, channel_id |-> "UCresolved0000000000000a", error |-> None],
     [ok |-> TRUE, channel_id |-> None, error |-> None],
     [ok |-> FALSE, channel_id |-> None, error |-> "timed out"]}

\* resolve_handle_to_channel_id(handle) on a response: the value returned
\* and the lines printed.
ResolveHandleToChannelId(handle, response) ==
    IF response.ok
    THEN [value |-> response.channel_id, printed |-> << >>]
    ELSE [value |-> None,
          printed |-> <<"<!-- Warning: Could not resolve handle @" \o handle
                          \o ": " \o response.error \o " -->">>]

GetYoutubeRssUrl(channel_id) ==
    "https://www.youtube.com/feeds/videos.xml?channel_id=" \o channel_id

\* ------------------------------------------------------------------------
\* The per-entry bodies of the two fetch loops
\* ------------------------------------------------------------------------

\* The message of the ValueError datetime(...) raises.
ValueErrorMessage(t) ==
    IF t[1] \notin 1..9999 THEN "year is out of range"
    ELSE IF t[2] \notin 1..12 THEN "month must be in 1..12"
    ELSE IF t[3] \notin 1..DaysInMonth(t[1], t[2])
         THEN "day is out of range for month"
    ELSE "time field out of range"

\* fetch_channel_feed, loop body: the publish-time tuple read.
ChannelPublished(entry) == entry.published_parsed

\* fetch_standard_rss_feed, loop body: published_parsed or updated_parsed.
StandardPublished(entry) ==
    IF entry.published_parsed # NoTime THEN entry.published_parsed
    ELSE entry.updated_parsed

\* Whether datetime(*published[:6]) raises for this publish-time tuple.
Raises(published) == published # NoTime /\ ~ValidDate(published)

\* pub_datetime of either loop body.
PubDatetime(published, t_now) ==
    IF published # NoTime THEN Datetime(published) ELSE t_now

\* fetch_channel_feed, loop body: the video id of a raw entry.
ExtractVideoId(entry) ==
    LET video_id == Get(entry.yt_videoid, "")
    IN IF Truthy(video_id) THEN video_id
       ELSE LET match == SearchVideoId(Get(entry.link, ""))
            IN IF match # None THEN match ELSE video_id

\* fetch_channel_feed, loop body: the dict appended for a raw entry.
ChannelEntry(entry, channel, channel_id, t_now) ==
    LET video_id == ExtractVideoId(entry)
    IN [title |-> Get(entry.title, "Untitled"),
        link |-> Get(entry.link, ""),
        video_id |-> video_id,
        description |-> Get(entry.summary, ""),
        published |-> PubDatetime(ChannelPublished(entry), t_now),
        author |-> Get(entry.author, Get(channel.name, "Skratch")),
        channel_name |-> Get(channel.name, "Unknown"),
        channel_id |-> channel_id,
        thumbnail_default |->
            "https://img.youtube.com/vi/" \o video_id \o "/default.jpg",
        thumbnail_medium |->
            "https://img.youtube.com/vi/" \o video_id \o "/mqdefault.jpg",
        thumbnail_high |->
            "https://img.youtube.com/vi/" \o video_id \o "/hqdefault.jpg",
        thumbnail_maxres |->
            "https://img.youtube.com/vi/" \o video_id \o "/maxresdefault.jpg",
        embed_url |-> "https://www.youtube.com/embed/" \o video_id,
        content_type |-> "video"]

\* fetch_standard_rss_feed, loop body: is this media an image.
IsImageMedia(media) ==
    media.medium = "image" \/ StartsWith(Get(media.type, ""), "image")

\* fetch_standard_rss_feed, loop body: the thumbnail of a raw entry.
StandardThumbnail(entry) ==
    LET images == {i \in 1..Len(entry.media_content) :
                      IsImageMedia(entry.media_content[i])}
        fromContent ==
            IF images = {} THEN ""
            ELSE LET i == CHOOSE h \in images : \A g \in images : h <= g
                 IN Get(entry.media_content[i].url, "")
    IN IF ~Truthy(fromContent) /\ Len(entry.media_thumbnail) > 0
       THEN Get(entry.media_thumbnail[1].url, "")
       ELSE fromContent

\* fetch_standard_rss_feed, loop body: the dict appended for a raw entry.
StandardEntry(entry, feed_config, t_now) ==
    LET thumbnail == StandardThumbnail(entry)
        description ==
            IF Truthy(Get(entry.description, "")) THEN entry.description
            ELSE Get(entry.summary, "")
    IN [title |-> Get(entry.title, "Untitled"),
        link |-> Get(entry.link, ""),
        video_id |-> None,
        description |-> Prefix(StripTags(description), 500),
        published |-> PubDatetime(StandardPublished(entry), t_now),
        author |-> IF Truthy(Get(entry.author, "")) THEN entry.author
                   ELSE Get(entry.dc_creator, Get(feed_config.name, "Skratch")),
        channel_name |-> Get(feed_config.name, "Unknown"),
        channel_id |-> None,
        thumbnail_default |-> thumbnail,
        thumbnail_medium |-> thumbnail,
        thumbnail_high |-> thumbnail,
        thumbnail_maxres |-> thumbnail,
        embed_url |-> None,
        content_type |-> Get(feed_config.content_type, "article")]

\* ------------------------------------------------------------------------
\* fetch_channel_feed, fetch_standard_rss_feed
\* ------------------------------------------------------------------------
\* feedparser.parse gives a record [ok, entries, error]: ok is FALSE when the
\* call raises (error is then the exception's text).  Each fetch function is
\* an operator giving [entries |-> the list returned, printed |-> the lines
\* it printed].

\* The channel feed's entries without the slice.
ChannelSliceUncapped(entries) == entries

\* feed.entries[:MAX_ITEMS_PER_CHANNEL] in fetch_channel_feed.
ChannelSlice(entries) == Prefix(entries, MAX_ITEMS_PER_CHANNEL)

\* feed.entries[:MAX_ITEMS_PER_CHANNEL] in fetch_standard_rss_feed.
StandardSlice(entries) == Prefix(entries, MAX_ITEMS_PER_CHANNEL)

\* The least index of a set of indices.
First(S) == CHOOSE h \in S : \A g \in S : h <= g

\* The try block of fetch_channel_feed.
ChannelTry(channel, channel_id, parsed, t_now) ==
    LET name == Get(channel.name, "Unknown")
        raw == ChannelSlice(parsed.entries)
        bad == {i \in 1..Len(raw) : Raises(ChannelPublished(raw[i]))}
    IN IF ~parsed.ok
       THEN [entries |-> << >>,
             printed |-> <<"<!-- Warning: Error fetching " \o name \o ": "
                             \o parsed.error \o " -->">>]
       ELSE IF bad # {}
       THEN [entries |-> << >>,
             printed |-> <<"<!-- Warning: Error fetching " \o name \o ": "
                             \o ValueErrorMessage(ChannelPublished(raw[First(bad)]))
                             \o " -->">>]
       ELSE [entries |-> [i \in 1..Len(raw) |->
                             ChannelEntry(raw[i], channel, channel_id, t_now)],
             printed |-> << >>]

FetchChannelFeed(channel, response, parsed, t_now) ==
    LET resolve == ~Truthy(channel.channel_id) /\ Truthy(channel.handle)
        resolved == ResolveHandleToChannelId(channel.handle, response)
        channel_id == IF resolve THEN resolved.value ELSE channel.channel_id
    IN IF resolve /\ ~Truthy(channel_id)
       THEN [entries |-> << >>,
             printed |-> resolved.printed
                 \o <<"<!-- Warning: Could not resolve channel "
                        \o Get(channel.name, "Unknown") \o " -->">>]
       ELSE IF ~Truthy(channel_id)
       THEN [entries |-> << >>, printed |-> << >>]
       ELSE LET r == ChannelTry(channel, channel_id, parsed, t_now)
            IN [entries |-> r.entries,
                printed |-> (IF resolve THEN resolved.printed ELSE << >>)
                                \o r.printed]

FetchStandardRssFeed(feed_config, parsed, t_now) ==
    LET name == Get(feed_config.name, "Unknown")
        raw == StandardSlice(parsed.entries)
        bad == {i \in 1..Len(raw) : Raises(StandardPublished(raw[i]))}
    IN IF ~Truthy(feed_config.url)
       THEN [entries |-> << >>, printed |-> << >>]
       ELSE IF ~parsed.ok
       THEN [entries |-> << >>,
             printed |-> <<"<!-- Warning: Error fetching " \o name \o ": "
                             \o parsed.error \o " -->">>]
       ELSE IF bad # {}
       THEN [entries |-> << >>,
             printed |-> <<"<!-- Warning: Error fetching " \o name \o ": "
                             \o ValueErrorMessage(StandardPublished(raw[First(bad)]))
                             \o " -->">>]
       ELSE [entries |-> [i \in 1..Len(raw) |->
                             StandardEntry(raw[i], feed_config, t_now)],
             printed |-> << >>]

\* ------------------------------------------------------------------------
\* main: sort and cap
\* ------------------------------------------------------------------------

\* The position for an ascending sort: after every element not greater.
InsertPositionAscending(sorted, e) ==
    Cardinality({i \in 1..Len(sorted) : DtGE(e.published, sorted[i].published)})

\* The position before the elements of equal key: an unstable sort.
InsertPositionBeforeEqual(sorted, e) ==
    Cardinality({i \in 1..Len(sorted) :
                    DtGreater(sorted[i].published, e.published)})

\* Where list.sort(key=published, reverse=True) puts e in an already sorted
\* prefix: after every element whose key is not smaller (the sort is stable).
InsertPosition(sorted, e) ==
    Cardinality({i \in 1..Len(sorted) : DtGE(sorted[i].published, e.published)})

InsertByPublished(sorted, e) ==
    LET k == InsertPosition(sorted, e)
    IN SubSeq(sorted, 1, k) \o <<e>> \o SubSeq(sorted, k + 1, Len(sorted))

\* The elements list[from..to] inserted one by one, in list order, into a
\* sorted sequence.  The range is halved, and the first half is evaluated
\* (its length taken) before the second is entered, which keeps the
\* evaluation shallow.
RECURSIVE InsertRange(_, _, _, _)
InsertRange(sorted, list, from, to) ==
    IF from > to THEN sorted
    ELSE IF from = to THEN InsertByPublished(sorted, list[from])
    ELSE LET mid == (from + to) \div 2
             half == InsertRange(sorted, list, from, mid)
         IN IF Len(half) >= 0 THEN InsertRange(half, list, mid + 1, to)
            ELSE half

\* all_entries.sort(key=lambda x: x["published"], reverse=True)
SortByPublished(list) == InsertRange(<< >>, list, 1, Len(list))

\* A slice one entry too long.
LimitTotalOffByOne(list) == Prefix(list, MAX_TOTAL_ITEMS + 1)

\* all_entries[:MAX_TOTAL_ITEMS]
LimitTotal(list) == Prefix(list, MAX_TOTAL_ITEMS)

\* ------------------------------------------------------------------------
\* build_mrss_feed
\* ------------------------------------------------------------------------
\* An element is [tag, attrib, text, children]: attrib a sequence of
\* <<name, value>> pairs in the order they are set, children a sequence of
\* elements in the order SubElement appends them.  A multi-line f-string is
\* the sequence of its literal and interpolated parts.

MEDIA == "{http://search.yahoo.com/mrss/}"

YT == "{http://www.youtube.com/xml/schemas/2015}"

DC == "{http://purl.org/dc/elements/1.1/}"

ATOM == "{http://www.w3.org/2005/Atom}"

Element(tag, attrib, text, children) ==
    [tag |-> tag, attrib |-> attrib, text |-> text, children |-> children]

\* SubElement(parent, tag).text = text
TextElement(tag, text) == Element(tag, << >>, text, << >>)

\* dt.strftime("%a, %d %b %Y %H:%M:%S +0000")
Strftime(dt) == <<"%a, %d %b %Y %H:%M:%S +0000", dt>>

IsBlank(part) == part \in {"", "\n"}

\* str.strip() of an f-string given by its parts.
RECURSIVE Strip(_)
Strip(parts) ==
    IF parts = << >> THEN parts
    ELSE IF IsBlank(Head(parts)) THEN Strip(Tail(parts))
    ELSE IF IsBlank(parts[Len(parts)])
         THEN Strip(SubSeq(parts, 1, Len(parts) - 1))
    ELSE parts

\* The <img> paragraph both description fragments use.
ImgParagraph(entry) ==
    <<"<p><img src=\"", entry.thumbnail_high, "\" alt=\"",
      HtmlEscape(entry.title), "\" /></p>">>

\* The fragment of an entry with a video id, before strip().
VideoDescription(entry) ==
    <<"\n", "<p>", HtmlEscape(entry.description), "</p>", "\n",
      "<p><a href=\"", entry.link, "\">", "Watch on YouTube", "</a></p>",
      "\n">>
    \o ImgParagraph(entry) \o <<"\n">>

\* The fragment of any other entry, before strip().
PlainDescription(entry) ==
    LET thumbnail_html ==
            IF Truthy(entry.thumbnail_high) THEN ImgParagraph(entry)
            ELSE <<"">>
    IN <<"\n">> \o thumbnail_html
       \o <<"\n", "<p>", HtmlEscape(entry.description), "</p>", "\n",
            "<p><a href=\"", entry.link, "\">", "Read more", "</a></p>",
            "\n">>

\* The fragment chosen by what the entry is labelled as, not by its video id.
DescriptionHtmlByContentType(entry) ==
    IF entry.content_type = "video" THEN Strip(VideoDescription(entry))
    ELSE Strip(PlainDescription(entry))

\* description_html.strip()
DescriptionHtml(entry) ==
    IF Truthy(entry.video_id) THEN Strip(VideoDescription(entry))
    ELSE Strip(PlainDescription(entry))

\* A test of the video id that lets the empty string pass.
HasVideoIdNotNone(entry) == entry.video_id # None

\* entry.get("video_id") as the condition of the media and YouTube elements.
HasVideoId(entry) == Truthy(entry.video_id)

\* A media:thumbnail element.
Thumbnail(url, size) ==
    Element(MEDIA \o "thumbnail",
            <<<<"url", url>>>> \o size, "", << >>)

\* The children of media:group.
MediaGroupChildren(entry) ==
    LET video == HasVideoId(entry)
    IN (IF video
        THEN <<Element(MEDIA \o "content",
                       <<<<"url", entry.embed_url>>,
                         <<"type", "application/x-shockwave-flash">>,
                         <<"medium", "video">>>>, "", << >>)>>
        ELSE << >>)
       \o <<Element(MEDIA \o "title", <<<<"type", "plain">>>>,
                    entry.title, << >>),
            Element(MEDIA \o "description", <<<<"type", "plain">>>>,
                    Prefix(entry.description, 500), << >>)>>
       \o (IF video
           THEN <<Thumbnail(entry.thumbnail_default,
                            <<<<"width", "120">>, <<"height", "90">>>>),
                  Thumbnail(entry.thumbnail_medium,
                            <<<<"width", "320">>, <<"height", "180">>>>),
                  Thumbnail(entry.thumbnail_high,
                            <<<<"width", "480">>, <<"height", "360">>>>),
                  Thumbnail(entry.thumbnail_maxres,
                            <<<<"width", "1280">>, <<"height", "720">>>>)>>
           ELSE IF Truthy(entry.thumbnail_high)
           THEN <<Thumbnail(entry.thumbnail_high, << >>)>>
           ELSE << >>)
       \o (IF video
           THEN <<Element(MEDIA \o "player", <<<<"url", entry.link>>>>,
                          "", << >>)>>
           ELSE << >>)

\* The item element build_mrss_feed appends for one entry.
ItemElement(entry) ==
    Element("item", << >>, "",
        <<TextElement("title", entry.title),
          TextElement("link", entry.link),
          Element("guid", <<<<"isPermaLink", "true">>>>, entry.link, << >>),
          TextElement("pubDate", Strftime(entry.published)),
          TextElement(DC \o "creator", entry.author),
          TextElement("description", DescriptionHtml(entry))>>
        \o (IF Truthy(entry.thumbnail_high) \/ HasVideoId(entry)
            THEN <<Element(MEDIA \o "group", << >>, "",
                           MediaGroupChildren(entry))>>
            ELSE << >>)
        \o (IF HasVideoId(entry)
            THEN <<TextElement(YT \o "videoId", entry.video_id)>>
            ELSE << >>)
        \o (IF Truthy(entry.channel_id)
            THEN <<TextElement(YT \o "channelId", entry.channel_id)>>
            ELSE << >>)
        \o <<TextElement("category", entry.channel_name)>>
        \o (IF Truthy(entry.content_type)
            THEN <<TextElement("category", entry.content_type)>>
            ELSE << >>))

\* The channel metadata elements that precede the items.
ChannelMetadata(utc_now) ==
    <<TextElement("title", FEED_TITLE),
      TextElement("link", FEED_LINK),
      TextElement("description", FEED_DESCRIPTION),
      TextElement("language", "en-us"),
      TextElement("lastBuildDate", Strftime(utc_now)),
      TextElement("generator", "Skratch YouTube RSS Aggregator"),
      Element(ATOM \o "link",
              <<<<"href", "https://skratch.golf/feeds/videos.xml">>,
                <<"rel", "self">>, <<"type", "application/rss+xml">>>>,
              "", << >>),
      Element("image", << >>, "",
              <<TextElement("url",
                    "https://storage.googleapis.com/prod-skratch-strapi/logo-black.svg"),
                TextElement("title", FEED_TITLE),
                TextElement("link", FEED_LINK)>>)>>

\* The rss element build_mrss_feed builds.
RssElement(entries, utc_now) ==
    Element("rss",
            <<<<"version", "2.0">>,
              <<"xmlns:atom", "http://www.w3.org/2005/Atom">>,
              <<"xmlns:media", "http://search.yahoo.com/mrss/">>,
              <<"xmlns:yt", "http://www.youtube.com/xml/schemas/2015">>,
              <<"xmlns:dc", "http://purl.org/dc/elements/1.1/">>>>,
            "",
            <<Element("channel", << >>, "",
                      ChannelMetadata(utc_now)
                      \o [i \in 1..Len(entries) |-> ItemElement(entries[i])])>>)

\* The declaration line minidom's toprettyxml writes first.
MinidomDeclaration == [kind |-> "text", text |-> "<?xml version=\"1.0\" ?>"]

\* The lines toprettyxml(indent="  ") writes for an element: an element
\* without children is one line (its tag, attributes and text, a text with
\* line breaks included), another is its opening line, its children's lines
\* and its closing line.
LeafLine(e, depth) ==
    [kind |-> "leaf", depth |-> depth, tag |-> e.tag, attrib |-> e.attrib,
     text |-> e.text]

OpenLine(e, depth) ==
    [kind |-> "open", depth |-> depth, tag |-> e.tag, attrib |-> e.attrib]

CloseLine(e, depth) == [kind |-> "close", depth |-> depth, tag |-> e.tag]

\* The concatenation of seqs[from..to] (the range is halved to keep the
\* evaluation shallow).
RECURSIVE ConcatRange(_, _, _)
ConcatRange(seqs, from, to) ==
    IF from > to THEN << >>
    ELSE IF from = to THEN seqs[from]
    ELSE LET mid == (from + to) \div 2
         IN ConcatRange(seqs, from, mid) \o ConcatRange(seqs, mid + 1, to)

\* The concatenation of the first n sequences of a sequence of sequences.
Concat(seqs, n) == ConcatRange(seqs, 1, n)

RECURSIVE ElementLines(_, _)
ElementLines(e, depth) ==
    IF e.children = << >> THEN <<LeafLine(e, depth)>>
    ELSE <<OpenLine(e, depth)>>
         \o Concat([i \in 1..Len(e.children) |->
                       ElementLines(e.children[i], depth + 1)],
                   Len(e.children))
         \o <<CloseLine(e, depth)>>

\* build_mrss_feed(entries): the lines of the text returned.
BuildMrssFeed(entries, utc_now) ==
    <<MinidomDeclaration>> \o ElementLines(RssElement(entries, utc_now), 0)

\* ------------------------------------------------------------------------
\* main: output
\* ------------------------------------------------------------------------

\* The declaration line main prints.
XmlDeclaration ==
    [kind |-> "text", text |-> "<?xml version=\"1.0\" encoding=\"UTF-8\"?>"]

\* line.startswith(p) of a line of feed_xml.
LineStartsWith(line, p) ==
    IF line.kind = "text" THEN StartsWith(line.text, p)
    ELSE IF line.kind = "close" THEN StartsWith("</" \o line.tag, p)
    ELSE StartsWith("<" \o line.tag, p)

\* lines = feed_xml.split("\n"), without lines[0] when it is a declaration.
BodyLines(feed_lines) ==
    IF LineStartsWith(feed_lines[1], "<?xml") THEN Tail(feed_lines)
    ELSE feed_lines

\* ------------------------------------------------------------------------
\* Inputs: configurations, raw feeds, clock readings
\* ------------------------------------------------------------------------

\* YOUTUBE_CHANNELS as configured.
ConfiguredChannels ==
    <<[name |-> "Skratch", channel_id |-> "UCwtGQ3sgidNlQGbIUBPP3xw",
       handle |-> None],
      [name |-> "Dan On Golf Show", channel_id |-> "UCQvs9V1djea1wFurLJPlqMg",
       handle |-> None]>>

\* RSS_FEEDS as configured.
ConfiguredFeeds ==
    <<[name |-> "Skratch Articles", url |-> "https://www.skratch.golf/rss",
       content_type |-> "article"]>>

\* The configuration as shipped, and the ones that differ from it in one
\* descriptor: a channel given by @handle, a channel with neither id nor
\* handle, a feed of content_type video, a feed without url.
Configurations ==
    {[channels |-> ConfiguredChannels, feeds |-> ConfiguredFeeds],
     [channels |-> [ConfiguredChannels EXCEPT
                       ![1] = [name |-> "Skratch", channel_id |-> None,
                               handle |-> "skratch"]],
      feeds |-> ConfiguredFeeds],
     [channels |-> [ConfiguredChannels EXCEPT
                       ![1] = [name |-> "Skratch", channel_id |-> None,
                               handle |-> None]],
      feeds |-> ConfiguredFeeds],
     [channels |-> ConfiguredChannels,
      feeds |-> [ConfiguredFeeds EXCEPT ![1].content_type = "video"]],
     [channels |-> ConfiguredChannels,
      feeds |-> [ConfiguredFeeds EXCEPT ![1].url = None]]}

\* What datetime.now() can read: the publish time of the latest day, or two
\* hours later.
Clocks == {<<2024, 1, MaxDay, 10, 0, 0>>, <<2024, 1, MaxDay, 12, 0, 0>>}

\* What datetime.now(timezone.utc) reads when the feed is built.
BuildClock == <<2024, 1, MaxDay, 12, 0, 1>>

Repeat(x, n) == [i \in 1..n |-> x]

\* A well-formed raw entry of a YouTube channel feed, published on day d.
RegularVideo(d) ==
    [title |-> "Round recap",
     link |-> "https://www.youtube.com/watch?v=AAAAAAAAAAA",
     yt_videoid |-> "AAAAAAAAAAA",
     summary |-> "Skins & pars",
     published_parsed |-> StructTime(2024, 1, d),
     author |-> "Skratch"]

\* Raw video entries with a field missing or malformed: the id only in the
\* link and no publish time, no id anywhere, a publish time that is no date.
SpecialVideos ==
    {[RegularVideo(1) EXCEPT !.title = None, !.author = None,
                             !.yt_videoid = None,
                             !.link = "https://youtu.be/watch?v=BBBBBBBBBBB",
                             !.published_parsed = NoTime],
     [RegularVideo(1) EXCEPT !.title = "No id", !.yt_videoid = None,
                             !.link = "https://youtu.be/live"],
     [RegularVideo(1) EXCEPT !.title = "Misdated",
                             !.published_parsed = StructTime(2024, 2, 30)]}

\* A well-formed raw entry of a generic feed, published on day d.
RegularArticle(d) ==
    [title |-> "Course guide",
     link |-> "https://www.skratch.golf/a",
     description |-> "<p>Tees <b>&</b> greens</p>",
     summary |-> None,
     published_parsed |-> StructTime(2024, 1, d),
     updated_parsed |-> NoTime,
     media_content |-> <<[medium |-> None, type |-> "audio/mpeg",
                          url |-> "https://cdn.skratch.golf/a.mp3"],
                         [medium |-> "image", type |-> None,
                          url |-> "https://cdn.skratch.golf/a.jpg"]>>,
     media_thumbnail |-> << >>,
     author |-> "Staff",
     dc_creator |-> None]

\* Raw generic entries with a field missing or malformed: only an updated
\* time and no image, no time at all and a media:thumbnail, a publish time
\* that is no date.
SpecialArticles ==
    {[RegularArticle(1) EXCEPT !.title = "Updated only",
                               !.published_parsed = NoTime,
                               !.updated_parsed = StructTime(2024, 1, 1),
                               !.media_content = << >>,
                               !.description = None,
                               !.summary = "1 < 2",
                               !.author = None],
     [RegularArticle(1) EXCEPT !.title = None,
                               !.published_parsed = NoTime,
                               !.media_content = << >>,
                               !.media_thumbnail =
                                   <<[url |-> "https://cdn.skratch.golf/t.jpg"]>>,
                               !.author = "",
                               !.dc_creator = "Desk"],
     [RegularArticle(1) EXCEPT !.title = "Misdated",
                               !.published_parsed = StructTime(2024, 13, 1)]}

\* The raw feeds feedparser.parse can return, of the regular entries by day
\* and the special entries: no entry; MAX_ITEMS_PER_CHANNEL regular entries,
\* all of one day or of the days in turn; a special entry followed by
\* MAX_ITEMS_PER_CHANNEL regular entries of day 1.
RawFeeds(regular, special) ==
    {<< >>, [i \in 1..MAX_ITEMS_PER_CHANNEL |-> regular[1 + (i % MaxDay)]]}
    \cup {Repeat(regular[d], MAX_ITEMS_PER_CHANNEL) : d \in Days}
    \cup {<<e>> \o Repeat(regular[1], MAX_ITEMS_PER_CHANNEL) : e \in special}

ParseFailure == [ok |-> FALSE, entries |-> << >>, error |-> "connection reset"]

\* What feedparser.parse does on a channel's feed url: raise, or return a feed.
ChannelParses ==
    {ParseFailure}
    \cup {[ok |-> TRUE, entries |-> f, error |-> None] :
             f \in RawFeeds([d \in Days |-> RegularVideo(d)], SpecialVideos)}

\* What feedparser.parse does on a generic feed url.
StandardParses ==
    {ParseFailure}
    \cup {[ok |-> TRUE, entries |-> f, error |-> None] :
             f \in RawFeeds([d \in Days |-> RegularArticle(d)], SpecialArticles)}

\* feedparser.parse was not called for the source.
NotParsed == [ok |-> FALSE, entries |-> << >>, error |-> None]

\* requests.get was not called for the source.
NotRequested == [ok |-> FALSE, channel_id |-> None, error |-> None]

\* ------------------------------------------------------------------------
\* State
\* ------------------------------------------------------------------------

VARIABLES
    youtube_channels,  \* YOUTUBE_CHANNELS
    rss_feeds,         \* RSS_FEEDS
    pc,                \* where main is
    idx,               \* the position of the running for loop in its list
    parsed_feeds,      \* per source fetched, what feedparser.parse gave
    returned,          \* per source fetched, the list its fetch returned
    all_entries,       \* all_entries of main
    feed_xml,          \* feed_xml of main, as its lines
    out                \* the lines printed on standard output

vars == <<youtube_channels, rss_feeds, pc, idx, parsed_feeds, returned,
          all_entries, feed_xml, out>>

Init ==
    /\ \E c \in Configurations :
          /\ youtube_channels = c.channels
          /\ rss_feeds = c.feeds
    /\ pc = "channels"
    /\ idx = 1
    /\ parsed_feeds = << >>
    /\ returned = << >>
    /\ all_entries = << >>
    /\ feed_xml = << >>
    /\ out = << >>

\* Whether fetch_channel_feed calls resolve_handle_to_channel_id.
NeedsResolve(channel) == ~Truthy(channel.channel_id) /\ Truthy(channel.handle)

\* Whether fetch_channel_feed reaches feedparser.parse.
ReachesParse(channel, response) ==
    IF NeedsResolve(channel)
    THEN Truthy(ResolveHandleToChannelId(channel.handle, response).value)
    ELSE Truthy(channel.channel_id)

\* for channel in YOUTUBE_CHANNELS: one iteration.
FetchChannel ==
    /\ pc = "channels"
    /\ LET channel == youtube_channels[idx]
       IN \E response \in (IF NeedsResolve(channel) THEN HandleResponses
                           ELSE {NotRequested}) :
          \E parsed \in (IF ReachesParse(channel, response) THEN ChannelParses
                         ELSE {NotParsed}) :
          \E t_now \in Clocks :
             LET r == FetchChannelFeed(channel, response, parsed, t_now)
             IN /\ all_entries' = all_entries \o r.entries
                /\ out' = out \o [i \in 1..Len(r.printed) |->
                                     [kind |-> "text", text |-> r.printed[i]]]
                /\ parsed_feeds' = Append(parsed_feeds, parsed)
                /\ returned' = Append(returned, r.entries)
    /\ IF idx < Len(youtube_channels)
       THEN idx' = idx + 1 /\ pc' = pc
       ELSE idx' = 1 /\ pc' = "feeds"
    /\ UNCHANGED <<youtube_channels, rss_feeds, feed_xml>>

\* The iteration with all_entries assigned instead of extended.
FetchFeedReplacing ==
    /\ pc = "feeds"
    /\ LET feed == rss_feeds[idx]
       IN \E parsed \in (IF Truthy(feed.url) THEN StandardParses
                         ELSE {NotParsed}) :
          \E t_now \in Clocks :
             LET r == FetchStandardRssFeed(feed, parsed, t_now)
             IN /\ all_entries' = r.entries
                /\ out' = out \o [i \in 1..Len(r.printed) |->
                                     [kind |-> "text", text |-> r.printed[i]]]
                /\ parsed_feeds' = Append(parsed_feeds, parsed)
                /\ returned' = Append(returned, r.entries)
    /\ IF idx < Len(rss_feeds)
       THEN idx' = idx + 1 /\ pc' = pc
       ELSE idx' = 1 /\ pc' = "sort"
    /\ UNCHANGED <<youtube_channels, rss_feeds, feed_xml>>

\* for feed in RSS_FEEDS: one iteration.
FetchFeed ==
    /\ pc = "feeds"
    /\ LET feed == rss_feeds[idx]
       IN \E parsed \in (IF Truthy(feed.url) THEN StandardParses
                         ELSE {NotParsed}) :
          \E t_now \in Clocks :
             LET r == FetchStandardRssFeed(feed, parsed, t_now)
             IN /\ all_entries' = all_entries \o r.entries
                /\ out' = out \o [i \in 1..Len(r.printed) |->
                                     [kind |-> "text", text |-> r.printed[i]]]
                /\ parsed_feeds' = Append(parsed_feeds, parsed)
                /\ returned' = Append(returned, r.entries)
    /\ IF idx < Len(rss_feeds)
       THEN idx' = idx + 1 /\ pc' = pc
       ELSE idx' = 1 /\ pc' = "sort"
    /\ UNCHANGED <<youtube_channels, rss_feeds, feed_xml>>

\* all_entries.sort(key=lambda x: x["published"], reverse=True)
SortEntries ==
    /\ pc = "sort"
    /\ all_entries' = SortByPublished(all_entries)
    /\ pc' = "limit"
    /\ UNCHANGED <<youtube_channels, rss_feeds, idx, parsed_feeds, returned,
                   feed_xml, out>>

\* all_entries = all_entries[:MAX_TOTAL_ITEMS]
LimitEntries ==
    /\ pc = "limit"
    /\ all_entries' = LimitTotal(all_entries)
    /\ pc' = "build"
    /\ UNCHANGED <<youtube_channels, rss_feeds, idx, parsed_feeds, returned,
                   feed_xml, out>>

\* feed_xml = build_mrss_feed(all_entries)
BuildFeed ==
    /\ pc = "build"
    /\ feed_xml' = BuildMrssFeed(all_entries, BuildClock)
    /\ pc' = "print_declaration"
    /\ UNCHANGED <<youtube_channels, rss_feeds, idx, parsed_feeds, returned,
                   all_entries, out>>

\* print('<?xml version="1.0" encoding="UTF-8"?>')
PrintDeclaration ==
    /\ pc = "print_declaration"
    /\ out' = Append(out, XmlDeclaration)
    /\ pc' = "print_body"
    /\ UNCHANGED <<youtube_channels, rss_feeds, idx, parsed_feeds, returned,
                   all_entries, feed_xml>>

\* print("\n".join(lines))
PrintBody ==
    /\ pc = "print_body"
    /\ out' = out \o BodyLines(feed_xml)
    /\ pc' = "done"
    /\ UNCHANGED <<youtube_channels, rss_feeds, idx, parsed_feeds, returned,
                   all_entries, feed_xml>>

Next ==
    \/ FetchChannel
    \/ FetchFeed
    \/ SortEntries
    \/ LimitEntries
    \/ BuildFeed
    \/ PrintDeclaration
    \/ PrintBody

Spec == Init /\ [][Next]_vars

\* ------------------------------------------------------------------------
\* Vocabulary of the properties
\* ------------------------------------------------------------------------

\* The concatenation main builds: the lists returned, in the order fetched.
Merged == Concat(returned, Len(returned))

\* The number of entries the sources returned.
RECURSIVE TotalLen(_, _)
TotalLen(lists, n) == IF n = 0 THEN 0 ELSE TotalLen(lists, n - 1) + Len(lists[n])

NumSources == Len(youtube_channels) + Len(rss_feeds)

\* The descriptor of the k-th source fetched.
IsChannelSource(k) == k <= Len(youtube_channels)

\* The raw entries the loop of the k-th source's fetch goes through.
RawSlice(k) == Prefix(parsed_feeds[k].entries, MAX_ITEMS_PER_CHANNEL)

\* The publish-time tuple the k-th source's fetch reads from a raw entry.
RawPublished(k, raw) ==
    IF IsChannelSource(k) THEN ChannelPublished(raw) ELSE StandardPublished(raw)

\* The k-th source's fetch did not get a feed: feedparser.parse raised, or
\* was not reached (no url, no channel id, a handle that does not resolve).
NoFeed(k) == ~parsed_feeds[k].ok

\* A raw entry the k-th source's fetch went through made datetime raise.
BadEntry(k) ==
    parsed_feeds[k].ok
    /\ \E i \in 1..Len(RawSlice(k)) : Raises(RawPublished(k, RawSlice(k)[i]))

\* The fetch or parse of the k-th source failed.
SourceFailed(k) == NoFeed(k) \/ BadEntry(k)

\* The entry one of the clock readings makes of a raw entry of source k.
IsNormalizationOf(entry, k, raw) ==
    \E t_now \in Clocks :
        entry = (IF IsChannelSource(k)
                 THEN ChannelEntry(raw, youtube_channels[k], entry.channel_id,
                                   t_now)
                 ELSE StandardEntry(raw, rss_feeds[k - Len(youtube_channels)],
                                    t_now))

PublishedIn(list) == {list[i].published : i \in 1..Len(list)}

CountAt(list, t) == Cardinality({i \in 1..Len(list) : list[i].published = t})

CountLater(list, t) ==
    Cardinality({i \in 1..Len(list) : DtGreater(list[i].published, t)})

\* The entries of a list published at t, in list order.
PublishedAt(list, t) ==
    LET AtT(e) == e.published = t IN SelectSeq(list, AtT)

\* The positions of the lines of a text that open, or close, an item.
ItemOpens(lines) ==
    LET Opens(i) == lines[i].kind = "open" /\ lines[i].tag = "item"
    IN SelectSeq([i \in 1..Len(lines) |-> i], Opens)

ItemCloses(lines) ==
    LET Closes(i) == lines[i].kind = "close" /\ lines[i].tag = "item"
    IN SelectSeq([i \in 1..Len(lines) |-> i], Closes)

\* The lines with a given tag of the item that spans the lines from..to.
ItemLines(lines, from, to, tag) ==
    {i \in from..to : lines[i].kind = "leaf" /\ lines[i].tag = tag}

\* The value of an attribute of a line, None when it is not set.
Attribute(line, name) ==
    LET set == {j \in 1..Len(line.attrib) : line.attrib[j][1] = name}
    IN IF set = {} THEN None ELSE line.attrib[First(set)][2]

\* The label of the anchor in the description fragment of an item: the
\* part between the end of the <a href="..."> tag and </a></p>.
AnchorLabelOf(lines, from, to) ==
    LET d == lines[First(ItemLines(lines, from, to, "description"))].text
        close == First({j \in 1..Len(d) : d[j] = "</a></p>"})
    IN d[close - 1]

\* A text is a complete document: the rss element and in it the channel
\* element are opened and closed around its items.
CompleteDocument(lines) ==
    /\ Len(lines) >= 4
    /\ lines[1].kind = "open" /\ lines[1].tag = "rss" /\ lines[1].depth = 0
    /\ lines[2].kind = "open" /\ lines[2].tag = "channel"
    /\ lines[Len(lines) - 1].kind = "close"
    /\ lines[Len(lines) - 1].tag = "channel"
    /\ lines[Len(lines)].kind = "close" /\ lines[Len(lines)].tag = "rss"
    /\ Len(ItemOpens(lines)) = Len(ItemCloses(lines))

\* The lines printed from the declaration on.
Document ==
    LET at == {i \in 1..Len(out) : out[i] = XmlDeclaration}
    IN IF at = {} THEN << >> ELSE SubSeq(out, First(at) + 1, Len(out))

\* ------------------------------------------------------------------------
\* Properties
\* ------------------------------------------------------------------------

\* main is about to call build_mrss_feed(all_entries).
PassedToBuild == pc = "build"

\* build_mrss_feed has just returned feed_xml for all_entries.
JustBuilt == pc = "print_declaration"

\* C1: the list main passes to build_mrss_feed has length
\* min(sum of the lengths of the per-source lists, MAX_TOTAL_ITEMS), and
\* MAX_TOTAL_ITEMS is 50.
C1_LengthIsMinOfTotalAndCap ==
    /\ MAX_TOTAL_ITEMS = 50
    /\ PassedToBuild =>
          Len(all_entries) = Min(TotalLen(returned, Len(returned)), 50)

\* C1 witness: the sources returned more than 50 entries and 50 are passed.
C1_CapReached ==
    /\ PassedToBuild
    /\ TotalLen(returned, Len(returned)) > 50
    /\ Len(all_entries) = 50

\* C2: in the list passed to build_mrss_feed the published timestamps are
\* non-increasing, the list is a selection of the merged entries, and every
\* merged entry later than a kept one is kept (so every dropped entry is no
\* later than every kept entry).
C2_NonIncreasingAndDroppedNoLater ==
    PassedToBuild =>
        /\ \A i \in 1..(Len(all_entries) - 1) :
              DtGE(all_entries[i].published, all_entries[i + 1].published)
        /\ \A t \in PublishedIn(Merged) :
              CountAt(all_entries, t) <= CountAt(Merged, t)
        /\ \A t \in PublishedIn(all_entries) :
              CountLater(all_entries, t) = CountLater(Merged, t)

\* C2 witness: entries of two publish times are kept, in an order that is
\* not the merged one, and the cap dropped entries.
C2_SortedAndCapped ==
    /\ PassedToBuild
    /\ Cardinality(PublishedIn(all_entries)) >= 2
    /\ all_entries # Prefix(Merged, MAX_TOTAL_ITEMS)
    /\ Len(Merged) > Len(all_entries)

\* C3: the kept entries of one published timestamp are, in order, the first
\* of the merged entries of that timestamp (sources in configuration order,
\* feed order within a source): equal timestamps are never swapped.
C3_StableTieBreak ==
    PassedToBuild =>
        \A t \in PublishedIn(all_entries) :
            PublishedAt(all_entries, t)
                = Prefix(PublishedAt(Merged, t), CountAt(all_entries, t))

\* C3 witness: two kept entries of different sources have the same
\* timestamp, the earlier configured one first, and the cap dropped entries.
C3_TieAcrossSources ==
    /\ PassedToBuild
    /\ Len(Merged) > MAX_TOTAL_ITEMS
    /\ \E i, j \in 1..Len(all_entries) :
          /\ i < j
          /\ all_entries[i].published = all_entries[j].published
          /\ all_entries[i].channel_name = youtube_channels[1].name
          /\ all_entries[j].channel_name = rss_feeds[1].name

\* The number of sources main has fetched when it is at pc, idx.
NumFetched ==
    IF pc = "channels" THEN idx - 1
    ELSE IF pc = "feeds" THEN Len(youtube_channels) + idx - 1
    ELSE NumSources

\* The display name of the k-th source.
SourceName(k) ==
    IF IsChannelSource(k) THEN youtube_channels[k].name
    ELSE rss_feeds[k - Len(youtube_channels)].name

\* C4: a source whose fetch or parse fails contributes zero entries; the run
\* goes on through the sources in order; every source that did not fail
\* contributes one entry per raw entry its loop went through, and these
\* reach the aggregation and the document printed; the document is complete
\* whatever failed, with zero items when every source failed.
C4_FailureIsolated ==
    /\ Len(returned) = NumFetched
    /\ Len(parsed_feeds) = NumFetched
    /\ \A k \in 1..Len(returned) :
          /\ SourceFailed(k) => returned[k] = << >>
          /\ ~SourceFailed(k) => Len(returned[k]) = Len(RawSlice(k))
          /\ \A i \in 1..Len(returned[k]) :
                returned[k][i].channel_name = SourceName(k)
    /\ pc \in {"channels", "feeds", "sort"} => all_entries = Merged
    /\ pc = "done" =>
          /\ CompleteDocument(Document)
          /\ Len(ItemOpens(Document))
                = Min(TotalLen(returned, Len(returned)), MAX_TOTAL_ITEMS)

\* C4 witness: the run ended, the first source's fetch raised, a later
\* source returned entries and the document printed holds items.
C4_FailedSourceOthersServed ==
    /\ pc = "done"
    /\ parsed_feeds[1] = ParseFailure
    /\ \E k \in 2..Len(returned) : returned[k] # << >>
    /\ Len(ItemOpens(Document)) > 0

\* C5: the output begins with the XML declaration line, nothing is written
\* before it, and when the run has ended it appears exactly once.
C5_DeclarationFirst ==
    /\ out # << >> => out[1] = XmlDeclaration
    /\ pc = "done" =>
          Cardinality({i \in 1..Len(out) : out[i] = XmlDeclaration}) = 1

AnchorLabels ==
    LET lines == BodyLines(feed_xml)
        opens == ItemOpens(lines)
        closes == ItemCloses(lines)
    IN [n \in 1..Len(opens) |-> AnchorLabelOf(lines, opens[n], closes[n])]

\* C7, as claimed: the anchor is labelled "Watch on YouTube" for every entry
\* of content kind video, resolved video_id or not, and "Read more" for
\* every other entry.
C7_WatchLabelForEveryVideoKind ==
    JustBuilt =>
        LET labels == AnchorLabels
        IN /\ Len(labels) = Len(all_entries)
           /\ \A n \in 1..Len(all_entries) :
                 labels[n] = IF all_entries[n].content_type = "video"
                             THEN "Watch on YouTube" ELSE "Read more"

\* C7, amended: the anchor is labelled "Watch on YouTube" for every entry
\* with a non-empty video_id and "Read more" for every other entry, entries
\* of content kind video without a video_id included.
C7_WatchLabelIffVideoId ==
    JustBuilt =>
        LET labels == AnchorLabels
        IN /\ Len(labels) = Len(all_entries)
           /\ \A n \in 1..Len(all_entries) :
                 labels[n] = IF Truthy(all_entries[n].video_id)
                             THEN "Watch on YouTube" ELSE "Read more"

\* C7 witness: a feed was built with an entry of a generic source configured
\* as video, labelled "Read more", and an entry labelled "Watch on YouTube".
C7_VideoKindReadMore ==
    /\ JustBuilt
    /\ \E n, m \in 1..Len(all_entries) :
          /\ all_entries[n].content_type = "video"
          /\ all_entries[n].video_id = None
          /\ AnchorLabels[n] = "Read more"
          /\ AnchorLabels[m] = "Watch on YouTube"

\* C8: every entry fetch_channel_feed returns has, when no video_id was
\* resolved, no thumbnail URL and no embed_url, and when one was resolved,
\* the templates instantiated with it.
C8_NoVideoIdNoUrls ==
    \A k \in 1..Len(returned) :
        IsChannelSource(k) =>
            \A i \in 1..Len(returned[k]) :
                LET e == returned[k][i]
                IN IF Truthy(e.video_id)
                   THEN /\ e.thumbnail_high
                              = "https://img.youtube.com/vi/" \o e.video_id
                                    \o "/hqdefault.jpg"
                        /\ e.embed_url
                              = "https://www.youtube.com/embed/" \o e.video_id
                   ELSE /\ ~Truthy(e.thumbnail_high)
                        /\ ~Truthy(e.embed_url)

\* C9: when a source's feed was fetched and parsed, every raw entry its loop
\* goes through that normalizes without error has its normalization in the
\* list the source returns, whatever the other raw entries hold.
C9_MalformedEntryKeepsOthers ==
    \A k \in 1..Len(returned) :
        parsed_feeds[k].ok =>
            \A i \in 1..Len(RawSlice(k)) :
                ~Raises(RawPublished(k, RawSlice(k)[i])) =>
                    \E j \in 1..Len(returned[k]) :
                        IsNormalizationOf(returned[k][j], k, RawSlice(k)[i])

\* main has fetched every source and not yet sorted.
AllFetched == pc = "sort"

\* C10: every list a fetch returns holds at most MAX_ITEMS_PER_CHANNEL = 25
\* entries; the list of a source whose fetch did not fail is the
\* normalizations of the first 25 raw entries in feed order; main
\* concatenates the lists as returned, without capping a source again.
C10_PerSourceCap ==
    /\ MAX_ITEMS_PER_CHANNEL = 25
    /\ AllFetched =>
          /\ \A k \in 1..Len(returned) :
                /\ Len(returned[k]) <= 25
                /\ ~SourceFailed(k) =>
                      /\ Len(returned[k]) = Min(Len(parsed_feeds[k].entries), 25)
                      /\ \A i \in 1..Len(returned[k]) :
                            IsNormalizationOf(returned[k][i], k,
                                              parsed_feeds[k].entries[i])
          /\ all_entries = Merged

\* C10 witness: a feed of more than 25 raw entries was fetched and its source
\* returned 25 entries, all of them in all_entries.
C10_LongFeedCapped ==
    /\ AllFetched
    /\ \E k \in 1..Len(returned) :
          /\ Len(parsed_feeds[k].entries) > 25
          /\ Len(returned[k]) = 25
    /\ Len(all_entries) >= 25

====
